---------------------------- MODULE Spec2Model ----------------------------
(***************************************************************************)
(* A model of drradif.py: the MusicPrescription schema, the knowledge base  *)
(* PHARMACOPEIA_CONTEXT, get_persian_music_prescription and the __main__    *)
(* driver.  Text is a sequence of string tokens; the external reasoning     *)
(* service is the environment and answers a request in flight with any      *)
(* response of Responses.                                                   *)
(***************************************************************************)
EXTENDS Integers, Sequences, FiniteSets, TLC

\* ------------------------------------------------------------------ bounds

\* How many direct calls the importing program makes in all.
MaxDirectCalls == 2

\* ------------------------------------------------------------- small values

\* Python's None, as a value of its own among the strings.
NoneVal == "<None>"

\* A return slot that holds nothing yet.
NoValue == [type |-> "None"]

\* Python truthiness of an Optional[str]: None and "" are falsy.
Truthy(s) == s # NoneVal /\ s # ""

Contains(seq, tok) == \E i \in 1..Len(seq) : seq[i] = tok

RECURSIVE Flatten(_)
Flatten(seqs) ==
    IF seqs = << >> THEN << >> ELSE Head(seqs) \o Flatten(Tail(seqs))

\* ----------------------------------------------------- MusicPrescription

\* The six str fields of the pydantic model, none with a default.
Fields ==
    << "diagnosis", "mode_name", "archetype", "neuroscience_mechanism",
       "search_query", "activity_suggestion" >>

FieldSet == { Fields[i] : i \in 1..Len(Fields) }

\* JSON values the service may put in an object: a string or a nested object.
JStr(s) == [type |-> "str", val |-> s]
JObj == [type |-> "object", val |-> "{...}"]

\* pydantic validation of a parsed JSON object against MusicPrescription:
\* every field is required and must be a str; keys that are no field are
\* ignored; no constraint on the length of a str.
MissingFields(obj) == { f \in FieldSet : f \notin DOMAIN obj }
WrongShape(obj) == { f \in FieldSet \cap DOMAIN obj : obj[f].type # "str" }

ValidateAcceptsPartial(obj) ==
    IF WrongShape(obj) = {}
    THEN [ok |-> TRUE,
          value |-> [type |-> "MusicPrescription",
                     fields |-> [f \in FieldSet \cap DOMAIN obj |-> obj[f].val]]]
    ELSE [ok |-> FALSE,
          error |-> "Failed to parse MusicPrescription: str type expected"]

ValidateCoercesShape(obj) ==
    IF MissingFields(obj) = {}
    THEN [ok |-> TRUE,
          value |-> [type |-> "MusicPrescription",
                     fields |-> [f \in FieldSet |-> obj[f].val]]]
    ELSE [ok |-> FALSE,
          error |-> "Failed to parse MusicPrescription: field required"]

Validate(obj) ==
    IF MissingFields(obj) # {}
    THEN [ok |-> FALSE,
          error |-> "Failed to parse MusicPrescription: field required"]
    ELSE IF WrongShape(obj) # {}
    THEN [ok |-> FALSE,
          error |-> "Failed to parse MusicPrescription: str type expected"]
    ELSE [ok |-> TRUE,
          value |-> [type |-> "MusicPrescription",
                     fields |-> [f \in FieldSet |-> obj[f].val]]]

\* PydanticOutputParser.parse: the completion must hold a JSON object, which
\* is then validated; anything else is an OutputParserException.
Parse(text) ==
    IF text.kind = "json"
    THEN Validate(text.obj)
    ELSE [ok |-> FALSE, error |-> "Invalid json output"]

\* parser.get_format_instructions(): a preamble and the schema's properties.
FormatInstructions ==
    << "The output should be formatted as a JSON instance that conforms to the JSON schema below." >>
    \o Fields

\* ---------------------------------------------------------- knowledge base

\* The module-level text, section by section.  It holds no {placeholder}.
KnowledgeBaseText ==
    << "You are 'Dr. Radif', a highly sophisticated Music Therapist",
       "Use this internal Pharmacopeia (Knowledge Base) to make your decision:",
       "1. Grief, Depression, Broken Heart, Rain -> Avaz-e Dashti (The Shepherd)",
       "2. Morning, Low Energy, Need Motivation, Sunrise -> Dastgah-e Mahur or Chahargah",
       "3. Nostalgia, Missing Home, Sunset, Autumn -> Avaz-e Bayat-e Isfahan or Segah",
       "4. Anxiety, Panic, Chaos, Overwhelmed -> Dastgah-e Homayoun (The King)",
       "5. Deep Focus, Coding, Math, Logic Work -> Dastgah-e Nava or Rast-Panjgah",
       "6. Insomnia, Bedtime, Racing Thoughts -> Avaz-e Abu Ata (The Philosopher)",
       "7. Vacation, Nature, Reset, Decompression -> Bayat-e Tork or Afshari",
       "INSTRUCTIONS: Return the output strictly in the requested JSON format." >>

\* ------------------------------------------------------- prompt templates

Lit(s) == [part |-> "lit", s |-> s]
Var(n) == [part |-> "var", s |-> n]

\* The f-string placeholders the two templates can hold.
Placeholders == { "{input}", "{format_instructions}" }
VarName(tok) == IF tok = "{input}" THEN "input" ELSE "format_instructions"

\* from_template: the template text is split into literal text and variables.
FromTemplate(toks) ==
    [i \in 1..Len(toks) |->
        IF toks[i] \in Placeholders THEN Var(VarName(toks[i])) ELSE Lit(toks[i])]

\* The human message template of lines 80-82.
HumanTemplateText ==
    << "PATIENT SYMPTOMS: ", "{input}",
       "\n\nAnalyze the symptoms and provide the prescription.\n",
       "{format_instructions}" >>

\* A mutant of FormatTemplate: a value is itself read as a template again.
FormatTemplateReexpands(template, values) ==
    Flatten([i \in 1..Len(template) |->
        IF template[i].part = "var"
        THEN Flatten([j \in 1..Len(values[template[i].s]) |->
                IF values[template[i].s][j] \in Placeholders
                THEN values[VarName(values[template[i].s][j])]
                ELSE << values[template[i].s][j] >>])
        ELSE << template[i].s >>])

\* Formatting a template: a variable is replaced by its value, taken as is.
FormatTemplate(template, values) ==
    Flatten([i \in 1..Len(template) |->
        IF template[i].part = "var"
        THEN values[template[i].s]
        ELSE << template[i].s >>])

\* prompt.invoke: the system message from the knowledge base, then the human
\* message from the template with input and format_instructions.
ChatPrompt(kb, values) ==
    << [role |-> "system", content |-> FormatTemplate(FromTemplate(kb), values)],
       [role |-> "human",
        content |-> FormatTemplate(FromTemplate(HumanTemplateText), values)] >>

\* ------------------------------------------------ the reasoning service

\* What the service can send back as the completion of a request.
GoodObj == [f \in FieldSet |-> JStr("text")]
ObjMissing(f) == [g \in FieldSet \ {f} |-> JStr("text")]
ObjEmpty(f) == [GoodObj EXCEPT ![f] = JStr("")]
ObjNested(f) == [GoodObj EXCEPT ![f] = JObj]
ObjExtra == [g \in FieldSet \cup {"confidence"} |-> JStr("text")]

JsonObjects ==
    {GoodObj, ObjExtra}
    \cup { ObjMissing(f) : f \in FieldSet }
    \cup { ObjEmpty(f) : f \in FieldSet }
    \cup { ObjNested(f) : f \in FieldSet }

Completions ==
    { [kind |-> "json", obj |-> o] : o \in JsonObjects }
    \cup { [kind |-> "prose", obj |-> << >>] }

\* An answer to one submission: a completion, a transport failure, or an
\* error status of the service.
Responses ==
    { [kind |-> "ok", status |-> 200, desc |-> "OK", text |-> c] : c \in Completions }
    \cup { [kind |-> "transport", status |-> 0,
            desc |-> "Connection error: connection refused", text |-> << >>],
           [kind |-> "service", status |-> 429,
            desc |-> "Rate limit reached", text |-> << >>],
           [kind |-> "service", status |-> 401,
            desc |-> "Incorrect API key provided", text |-> << >>] }

NoResponse == [kind |-> "none", status |-> 0, desc |-> "", text |-> << >>]

\* ----------------------------------------------------------- ChatOpenAI

\* The client's retry count when the constructor is given none (line 67
\* passes temperature, model and openai_api_key only).
DefaultMaxRetries == 2

\* The client sends a failed request again on a connection error and on the
\* statuses 408, 409, 429 and 5xx.
Retryable(r) ==
    \/ r.kind = "transport"
    \/ r.kind = "service" /\ (r.status \in {408, 409, 429} \/ r.status >= 500)

\* ChatOpenAI(openai_api_key = key): a key given is used; with None the
\* client reads OPENAI_API_KEY from the environment, and raises when that is
\* unset.
ClientOutcomes(key, env) ==
    IF key # NoneVal THEN { [ok |-> TRUE, api_key |-> key] }
    ELSE IF env = NoneVal THEN { [ok |-> FALSE, api_key |-> NoneVal] }
    ELSE { [ok |-> TRUE, api_key |-> env] }

\* The exception the constructor raises for a missing key.
MissingKeyError ==
    [type |-> "exception", text |-> << "The api_key client option must be set" >>]

NoClient == [api_key |-> NoneVal, max_retries |-> 0]

\* ------------------------------------------------------------ the result

\* f"Error: {e}"
ErrorStringDropsCause(e) == [type |-> "str", text |-> << "Error: " >>]

ErrorString(e) == [type |-> "str", text |-> << "Error: ", e >>]

\* chain.invoke after the model call: a failed call raises its error, a
\* completion goes through the parser, which raises on a bad one.
ChainOutcome(r) ==
    IF r.kind = "ok"
    THEN Parse(r.text)
    ELSE [ok |-> FALSE, error |-> r.desc]

\* try: return chain.invoke(...)  except Exception as e: return f"Error: {e}"
TryChain(r) ==
    IF ChainOutcome(r).ok THEN ChainOutcome(r).value ELSE ErrorString(ChainOutcome(r).error)

IsPrescription(v) == v.type = "MusicPrescription"
IsFailure(v) == v.type = "str" /\ Len(v.text) >= 1 /\ v.text[1] = "Error: "

\* ------------------------------------------------------------- the driver

user_scenarios ==
    << "I have to write 500 lines of Python code and I'm distracted.",
       "I just went through a breakup and it's raining outside.",
       "I'm feeling super anxious about a meeting and my heart is racing.",
       "I'm on a road trip in the desert and feeling philosophical." >>

\* What the importing program passes in a direct call.
DirectInputs == { "I feel bittersweet tonight", "{format_instructions}" }
DirectKeys == { NoneVal, "sk-arg" }

\* What OPENAI_API_KEY may be in the environment of the process: unset or a
\* key, and for the script also empty, which its test "not my_api_key" takes
\* for no key.
EnvKeys(n) ==
    IF n = "__main__" THEN { NoneVal, "", "sk-env" } ELSE { NoneVal, "sk-env" }

Callers == { "t1", "t2" }
Threads == { "main" } \cup Callers

\* ------------------------------------------------------------------ state

VARIABLES
    name,                  \* __name__ of the module: run as a script or imported
    environ,               \* os.environ's OPENAI_API_KEY
    PHARMACOPEIA_CONTEXT,  \* the module-level knowledge base text
    pc,                    \* where each thread stands
    user_input,            \* get_persian_music_prescription's parameter
    openai_api_key,        \* get_persian_music_prescription's parameter
    llm,                   \* its ChatOpenAI client
    request,               \* the messages of its request
    submissions,           \* how often the call has sent its request
    response,              \* the answer the call's chain works on
    ret,                   \* what the call returned or raised
    my_api_key,            \* the driver's os.getenv result
    idx,                   \* the driver's place in user_scenarios
    calls,                 \* the symptoms the driver has passed, in order
    stdout,                \* the lines the driver has printed
    ncalls                 \* direct calls made so far

vars ==
    << name, environ, PHARMACOPEIA_CONTEXT, pc, user_input, openai_api_key, llm,
       request, submissions, response, ret, my_api_key, idx, calls, stdout,
       ncalls >>

callVars ==
    << user_input, openai_api_key, llm, request, submissions, response, ret >>

mainVars == << my_api_key, idx, calls, stdout >>

Init ==
    /\ name \in { "__main__", "drradif" }
    /\ environ \in EnvKeys(name)
    /\ PHARMACOPEIA_CONTEXT = KnowledgeBaseText
    /\ pc = [t \in Threads |-> IF t = "main" THEN "module" ELSE "idle"]
    /\ user_input = [t \in Threads |-> NoneVal]
    /\ openai_api_key = [t \in Threads |-> NoneVal]
    /\ llm = [t \in Threads |-> NoClient]
    /\ request = [t \in Threads |-> << >>]
    /\ submissions = [t \in Threads |-> 0]
    /\ response = [t \in Threads |-> NoResponse]
    /\ ret = [t \in Threads |-> NoValue]
    /\ my_api_key = NoneVal
    /\ idx = 1
    /\ calls = << >>
    /\ stdout = << >>
    /\ ncalls = 0

\* ------------------------------------------ get_persian_music_prescription

\* Entering the function with its two arguments: a fresh frame.
Enter(t, symptom, key) ==
    /\ pc' = [pc EXCEPT ![t] = "llm"]
    /\ user_input' = [user_input EXCEPT ![t] = symptom]
    /\ openai_api_key' = [openai_api_key EXCEPT ![t] = key]
    /\ llm' = [llm EXCEPT ![t] = NoClient]
    /\ request' = [request EXCEPT ![t] = << >>]
    /\ submissions' = [submissions EXCEPT ![t] = 0]
    /\ response' = [response EXCEPT ![t] = NoResponse]
    /\ ret' = [ret EXCEPT ![t] = NoValue]

\* Lines 67-71, outside the try: the client is built, or the constructor's
\* exception leaves the function.
ConstructLLM(t) ==
    /\ pc[t] = "llm"
    /\ \E o \in ClientOutcomes(openai_api_key[t], environ) :
          IF o.ok
          THEN /\ llm' = [llm EXCEPT ![t] =
                      [api_key |-> o.api_key, max_retries |-> DefaultMaxRetries]]
               /\ pc' = [pc EXCEPT ![t] = "chain"]
               /\ ret' = ret
          ELSE /\ llm' = llm
               /\ pc' = [pc EXCEPT ![t] = "raised"]
               /\ ret' = [ret EXCEPT ![t] = MissingKeyError]
    /\ UNCHANGED << name, environ, PHARMACOPEIA_CONTEXT, user_input, openai_api_key,
                    request, submissions, response, mainVars, ncalls >>

\* Lines 74-94: parser, prompt and chain are built, chain.invoke formats the
\* messages and the client sends the request for the first time.
Invoke(t) ==
    /\ pc[t] = "chain"
    /\ request' = [request EXCEPT ![t] =
          ChatPrompt(PHARMACOPEIA_CONTEXT,
                     [input |-> << user_input[t] >>,
                      format_instructions |-> FormatInstructions])]
    /\ submissions' = [submissions EXCEPT ![t] = 1]
    /\ pc' = [pc EXCEPT ![t] = "wait"]
    /\ UNCHANGED << name, environ, PHARMACOPEIA_CONTEXT, user_input, openai_api_key,
                    llm, response, ret, mainVars, ncalls >>

\* The answer r reaches the call it answers.
DeliverToAll(t, r) == [u \in Threads |-> r]

Deliver(t, r) == [response EXCEPT ![t] = r]

\* The service answers the request in flight.  The client sends the request
\* again while the answer is retryable and retries are left; otherwise the
\* answer goes through the rest of the chain and the function returns the
\* chain's result, or its error as a string (lines 90-97).
ServiceRespond(t) ==
    /\ pc[t] = "wait"
    /\ \E r \in Responses :
          IF Retryable(r) /\ submissions[t] <= llm[t].max_retries
          THEN /\ submissions' = [submissions EXCEPT ![t] = @ + 1]
               /\ UNCHANGED << pc, response, ret >>
          ELSE /\ response' = Deliver(t, r)
               /\ ret' = [ret EXCEPT ![t] = TryChain(response'[t])]
               /\ pc' = [pc EXCEPT ![t] = "returned"]
               /\ UNCHANGED submissions
    /\ UNCHANGED << name, environ, PHARMACOPEIA_CONTEXT, user_input, openai_api_key,
                    llm, request, mainVars, ncalls >>

\* ------------------------------------------------------------- the callers

\* Line 101: the driver runs only when the module is the script.
ModuleLoad ==
    /\ pc["main"] = "module"
    /\ pc' = [pc EXCEPT !["main"] = IF name = "__main__" THEN "start" ELSE "imported"]
    /\ UNCHANGED << name, environ, PHARMACOPEIA_CONTEXT, callVars, mainVars, ncalls >>

\* Lines 103-108: the key is read; without one the driver says so and ends.
MainStart ==
    /\ pc["main"] = "start"
    /\ my_api_key' = environ
    /\ IF ~Truthy(environ)
       THEN /\ stdout' = << << "Please set your OPENAI_API_KEY environment variable." >> >>
            /\ pc' = [pc EXCEPT !["main"] = "done"]
       ELSE /\ stdout' = << << "--- DR. RADIF IS LISTENING ---" >> >>
            /\ pc' = [pc EXCEPT !["main"] = "loop"]
    /\ UNCHANGED << name, environ, PHARMACOPEIA_CONTEXT, callVars, idx, calls, ncalls >>

\* Lines 118-120: the next symptom is printed and passed to the function.
MainCall ==
    /\ pc["main"] = "loop"
    /\ stdout' = Append(stdout, << "PATIENT: ", user_scenarios[idx] >>)
    /\ calls' = Append(calls, user_scenarios[idx])
    /\ Enter("main", user_scenarios[idx], my_api_key)
    /\ UNCHANGED << name, environ, PHARMACOPEIA_CONTEXT, my_api_key, idx, ncalls >>

\* The lines the driver prints for a prescription (lines 123-127).
PrescriptionLines(rx) ==
    << << "RX: ", rx.fields["mode_name"], rx.fields["archetype"] >>,
       << "WHY: ", rx.fields["neuroscience_mechanism"] >>,
       << "SEARCH: ", rx.fields["search_query"] >>,
       << "DO THIS: ", rx.fields["activity_suggestion"] >>,
       << "--------------------------------------------------" >> >>

\* The loop's next place after the body ran for place i.
NextIdxStopsOnFailure(i, rx) ==
    IF IsPrescription(rx) THEN i + 1 ELSE Len(user_scenarios) + 1

NextIdx(i, rx) == i + 1

\* Lines 122-127 and the loop's step: a prescription is printed, anything
\* else is passed over, and the loop goes on or ends.
MainAfter ==
    /\ pc["main"] = "returned"
    /\ stdout' = IF IsPrescription(ret["main"])
                 THEN stdout \o PrescriptionLines(ret["main"])
                 ELSE stdout
    /\ idx' = NextIdx(idx, ret["main"])
    /\ pc' = [pc EXCEPT !["main"] =
                 IF idx' > Len(user_scenarios) THEN "done" ELSE "loop"]
    /\ UNCHANGED << name, environ, PHARMACOPEIA_CONTEXT, callVars, my_api_key,
                    calls, ncalls >>

\* A program that imported the module calls the function from thread t.
DirectCall(t) ==
    /\ pc["main"] = "imported"
    /\ pc[t] \in { "idle", "returned", "raised" }
    /\ ncalls < MaxDirectCalls
    /\ ncalls' = ncalls + 1
    /\ \E symptom \in DirectInputs, key \in DirectKeys : Enter(t, symptom, key)
    /\ UNCHANGED << name, environ, PHARMACOPEIA_CONTEXT, mainVars >>

Step(t) ==
    \/ ConstructLLM(t)
    \/ Invoke(t)
    \/ ServiceRespond(t)

MainNext ==
    \/ ModuleLoad
    \/ MainStart
    \/ MainCall
    \/ MainAfter
    \/ Step("main")

Next ==
    \/ MainNext
    \/ \E t \in Callers : DirectCall(t) \/ Step(t)

Spec == Init /\ [][Next]_vars

\* The scheduler runs the driver and every request ends (in an answer or in
\* the transport's time-out).
FairSpec == Spec /\ WF_vars(MainNext)

\* ------------------------------------------------------------------ claims

InCall(t) == pc[t] \in { "llm", "chain", "wait", "returned", "raised" }
Submitted(t) == pc[t] \in { "wait", "returned" }

\* The driver found no key, or a direct call was given None as its key.
CredentialAbsent(t) ==
    IF t = "main"
    THEN pc["main"] \notin { "module", "start", "imported" } /\ ~Truthy(my_api_key)
    ELSE InCall(t) /\ openai_api_key[t] = NoneVal

\* C1: with the credential absent the service is never invoked and the
\* absence is reported (the driver's message, or an error of the call)
\* instead of another key being taken silently, in the driver and in a
\* direct call alike.
C1_NoCallWithoutCredential ==
    \A t \in Threads :
        CredentialAbsent(t) =>
            /\ submissions[t] = 0
            /\ pc[t] \in { "llm", "raised", "done" }
            /\ llm[t] = NoClient

\* C2: no error leaves get_persian_music_prescription as an exception: every
\* call that ends, ends by returning.
C2_NoErrorEscapes ==
    \A t \in Threads : pc[t] # "raised" /\ ret[t].type # "exception"

\* C3: a returned value is a MusicPrescription with exactly the six fields,
\* or a failure string, and nothing in between.
C3_RecordOrFailure ==
    \A t \in Threads :
        pc[t] = "returned" =>
            \/ /\ IsPrescription(ret[t])
               /\ DOMAIN ret[t] = { "type", "fields" }
               /\ DOMAIN ret[t].fields = FieldSet
            \/ /\ IsFailure(ret[t])
               /\ DOMAIN ret[t] = { "type", "text" }

\* C3's case: the service left a field out, and the call returned.
C3_Witness ==
    \E t \in Threads :
        /\ pc[t] = "returned"
        /\ response[t].kind = "ok"
        /\ response[t].text.kind = "json"
        /\ MissingFields(response[t].text.obj) # {}
        /\ IsFailure(ret[t])

\* C4: a returned MusicPrescription has no empty field.
C4_FieldsNonEmpty ==
    \A t \in Threads :
        (pc[t] = "returned" /\ IsPrescription(ret[t])) =>
            \A f \in DOMAIN ret[t].fields : ret[t].fields[f] # ""

\* A completion that does not fit the schema: prose, a field missing, or a
\* field that is no text.
Malformed(r) ==
    /\ r.kind = "ok"
    /\ \/ r.text.kind = "prose"
       \/ /\ r.text.kind = "json"
          /\ (MissingFields(r.text.obj) # {} \/ WrongShape(r.text.obj) # {})

\* C5: a malformed completion ends the call with a failure value: never a
\* MusicPrescription, never an exception.
C5_MalformedRejected ==
    \A t \in Threads :
        Malformed(response[t]) =>
            /\ pc[t] # "raised"
            /\ ret[t].type # "exception"
            /\ IsFailure(ret[t])
            /\ ~IsPrescription(ret[t])

\* C5's case: a completion with a nested object for a field, or prose.
C5_Witness ==
    /\ \E t \in Threads :
          /\ pc[t] = "returned"
          /\ response[t].kind = "ok"
          /\ response[t].text.kind = "json"
          /\ WrongShape(response[t].text.obj) # {}
    /\ \E t \in Threads :
          /\ pc[t] = "returned"
          /\ response[t].kind = "ok"
          /\ response[t].text.kind = "prose"

\* C6: a call that failed with a transport error returns a failure whose
\* text holds that error's description, and no record.
C6_TransportFailureDescribed ==
    \A t \in Threads :
        (pc[t] = "returned" /\ response[t].kind = "transport") =>
            /\ IsFailure(ret[t])
            /\ Contains(ret[t].text, response[t].desc)
            /\ ~IsPrescription(ret[t])

C6_Witness ==
    \E t \in Threads :
        /\ pc[t] = "returned"
        /\ response[t].kind = "transport"
        /\ response[t].desc = "Connection error: connection refused"

\* C7: a call sends its request to the service at most once.
C7_AtMostOneSubmission ==
    \A t \in Threads : submissions[t] <= 1

\* C8: calls share no mutable state: no step changes the frames of two calls
\* or the knowledge base, and what a call returned is the chain's result on
\* the answer to its own request.
C8_CallsIndependent ==
    [][ /\ PHARMACOPEIA_CONTEXT' = PHARMACOPEIA_CONTEXT
        /\ PHARMACOPEIA_CONTEXT = KnowledgeBaseText
        /\ \A t \in Threads : \A u \in Threads \ {t} :
              \/ << pc[t], user_input[t], openai_api_key[t], llm[t], request[t],
                    submissions[t], response[t], ret[t] >>'
                 = << pc[t], user_input[t], openai_api_key[t], llm[t], request[t],
                      submissions[t], response[t], ret[t] >>
              \/ << pc[u], user_input[u], openai_api_key[u], llm[u], request[u],
                    submissions[u], response[u], ret[u] >>'
                 = << pc[u], user_input[u], openai_api_key[u], llm[u], request[u],
                      submissions[u], response[u], ret[u] >>
        /\ \A t \in Threads :
              pc'[t] = "returned" => ret'[t] = TryChain(response'[t])
      ]_vars

\* C8's case: two calls in flight at once on different inputs, one of them
\* already answered once and sent again.
C8_Witness ==
    /\ pc["t1"] = "wait"
    /\ pc["t2"] = "wait"
    /\ user_input["t1"] # user_input["t2"]
    /\ openai_api_key["t1"] # openai_api_key["t2"]
    /\ submissions["t2"] = 2

\* C9: the request a call submits is the knowledge base verbatim as the
\* system message, then one human message holding the user's input
\* unchanged and the format instructions with the six field names.
C9_RequestShape ==
    \A t \in Threads :
        Submitted(t) =>
            /\ Len(request[t]) = 2
            /\ request[t][1] = [role |-> "system", content |-> KnowledgeBaseText]
            /\ request[t][2].role = "human"
            /\ Contains(request[t][2].content, user_input[t])
            /\ \A i \in 1..Len(FormatInstructions) :
                  Contains(request[t][2].content, FormatInstructions[i])
            /\ Len(request[t][2].content) = 3 + Len(FormatInstructions)

\* C9's case: an input that looks like a placeholder was submitted.
C9_Witness ==
    \E t \in Threads :
        /\ pc[t] = "wait"
        /\ user_input[t] = "{format_instructions}"
        /\ submissions[t] = 1

\* C10: with a key, the driver calls the function once per scenario in list
\* order and then ends; a failure prints no prescription lines and neither
\* stops the loop nor skips a scenario.
C10_DriverLoop ==
    /\ [](calls = SubSeq(user_scenarios, 1, Len(calls)))
    /\ []((pc["main"] = "loop" \/ InCall("main")) =>
            Truthy(my_api_key) /\ idx <= Len(user_scenarios))
    /\ [](InCall("main") => Len(calls) = idx /\ user_input["main"] = user_scenarios[idx])
    /\ []((pc["main"] = "done" /\ Truthy(my_api_key)) => calls = user_scenarios)
    /\ [][ (pc["main"] = "returned" /\ pc'["main"] # "returned"
            /\ ~IsPrescription(ret["main"])) =>
              /\ stdout' = stdout
              /\ idx' = idx + 1
              /\ calls' = calls
              /\ (idx < Len(user_scenarios) => pc'["main"] = "loop") ]_vars
    /\ [](pc["main"] = "loop" => <>(pc["main"] = "done"))

\* C10's case: the first scenario failed, a later one succeeded, the loop ended.
C10_Witness ==
    /\ pc["main"] = "done"
    /\ Truthy(my_api_key)
    /\ Len(calls) = 4
    /\ Len(stdout) >= 3
    /\ stdout[2][1] = "PATIENT: "
    /\ stdout[3][1] = "PATIENT: "
    /\ \E i \in 1..Len(stdout) : stdout[i][1] = "RX: "

=============================================================================
